---------------------------- MODULE Spec2Model ----------------------------
(***************************************************************************)
(* Model of the extraction-and-synthesis pipeline of riassuntore:          *)
(*   - AIProcessor (src/ai_processor.py): process_text fans one text out   *)
(*     to the requested styles, one generation invocation per style, and   *)
(*     aggregates the slots, the metadata and the running stats;           *)
(*   - DocumentProcessor (src/document_processor.py): extract_text with    *)
(*     its single-slot cache over a small file system.                     *)
(* Specifications: Spec (the orchestrator and its statistics), SpecDoc     *)
(* (extract_text, call after call), SpecFn (one function of the extractor  *)
(* on one drawn argument), SpecInfo (get_file_info step by step), SpecConc *)
(* (two threads in extract_text), SpecStat (two threads counting their     *)
(* requests) and SpecAgent (AIAgent of src/main.py, call after call).      *)
(* Strings of the orchestrator are sequences of tokens (a token is one     *)
(* character or one fixed piece of text such as the tag "[ERRORE]");       *)
(* strings of the extractor are sequences of code points (integers).       *)
(***************************************************************************)
EXTENDS Integers, Sequences, FiniteSets, TLC

(***************************************************************************)
(* Bounds of the model.                                                    *)
(***************************************************************************)
MaxPad == 1
MaxList == 2
MaxTotal == 5
MaxFileLen == 3
MaxPages == 3
MaxName == 3
MaxAttempts == 2

(***************************************************************************)
(* Program constants.                                                      *)
(***************************************************************************)
MinChars == 50

VARIABLES
    processing_stats,     \* AIProcessor.processing_stats
    pc,                   \* position of the process_text call
    text,                 \* argument text of the current/last call
    styles_arg,           \* argument styles of the current/last call
    styles,               \* local styles (after the None default)
    idx,                  \* position of the generation loop in styles
    results,              \* local results: style -> slot string
    processing_metadata,  \* local processing_metadata
    result,               \* the ProcessingResult returned by the last call
    error,                \* the exception raised by the last call
    stats0,               \* history: processing_stats when the call began
    attempts,             \* history: generation invocations of this call
    ai_event,             \* history: the last AIProcessor operation begun
    stats_view            \* what the last get_processing_stats returned

aiVars == <<processing_stats, pc, text, styles_arg, styles, idx, results,
            processing_metadata, result, error, stats0, attempts,
            ai_event, stats_view>>

VARIABLES
    fs,                   \* the files: path -> <<>> (missing) or <<data>>
    last_processed_file,  \* DocumentProcessor.last_processed_file: <<>> is None
    last_extracted_text,  \* DocumentProcessor.last_extracted_text: <<>> is None
    doc_event,            \* history: the last step taken on the extractor side
    doc_path,             \* history: the path of the last extract_text call
    doc_ret,              \* history: what the last extract_text call did
    doc_opened,           \* history: the last extract_text call read the file
    prev_ok               \* history: path and text of the successful call
                          \* that preceded the last call: <<>> if none

docVars == <<fs, last_processed_file, last_extracted_text, doc_event,
             doc_path, doc_ret, doc_opened, prev_ok>>

VARIABLES
    info_pc,              \* position of the get_file_info call
    info_path,            \* argument file_path of the get_file_info call
    info,                 \* the dict of lines 224-231, as far as it is built
    info_ret              \* what the last get_file_info call did

infoVars == <<info_pc, info_path, info, info_ret>>

VARIABLES
    calls                 \* the extract_text calls of the two threads that
                          \* share one DocumentProcessor: position and locals

concVars == <<calls>>

VARIABLES
    probe,                \* a function of the program and its argument
    probe_out             \* what the function returned for that argument

probeVars == <<probe, probe_out>>

VARIABLES
    workers               \* the threads that count requests on one shared
                          \* AIProcessor: position, register and own counts

statVars == <<workers>>

VARIABLES
    agent_pc,             \* position of the AIAgent call
    agent_call,           \* the AIAgent operation called and its argument
    agent_ret             \* what the AIAgent call did

agentVars == <<agent_pc, agent_call, agent_ret>>

restVars == <<statVars, agentVars>>

vars == <<aiVars, docVars, infoVars, concVars, probeVars, restVars>>

notAiVars == <<docVars, infoVars, concVars, probeVars, restVars>>
notDocVars == <<aiVars, infoVars, concVars, probeVars, restVars>>

(***************************************************************************)
(* Strings of tokens; str.strip()                                          *)
(***************************************************************************)
SP == " "
TokenSpace == {SP, "\n"}

RECURSIVE lstrip_tokens(_)
lstrip_tokens(s) ==
    IF s = <<>> THEN <<>>
    ELSE IF Head(s) \in TokenSpace THEN lstrip_tokens(Tail(s))
    ELSE s

RECURSIVE rstrip_tokens(_)
rstrip_tokens(s) ==
    IF s = <<>> THEN <<>>
    ELSE IF s[Len(s)] \in TokenSpace THEN rstrip_tokens(SubSeq(s, 1, Len(s) - 1))
    ELSE s

strip_tokens(s) == rstrip_tokens(lstrip_tokens(s))

startswith(s, prefix) ==
    /\ Len(s) >= Len(prefix)
    /\ SubSeq(s, 1, Len(prefix)) = prefix

(***************************************************************************)
(* The input text, by its shape: lead whitespace characters, then body     *)
(* characters that start and end with a non-whitespace one, then trail     *)
(* whitespace characters.  A whitespace-only text has body = 0, trail = 0. *)
(***************************************************************************)
BodyLens == {0, MinChars - 1, MinChars}

Texts ==
    {t \in [lead : 0..MaxPad, body : BodyLens, trail : 0..MaxPad] :
        /\ t.lead + t.trail <= MaxPad
        /\ t.body = 0 => t.trail = 0}

text_len(t) == t.lead + t.body + t.trail          \* len(text)
text_strip(t) == [lead |-> 0, body |-> t.body, trail |-> 0]  \* text.strip()

(***************************************************************************)
(* Style Catalog: PromptManager.get_system_prompts().keys()                *)
(***************************************************************************)
CanonicalStyles == <<"didactic", "client", "developers", "management">>

SeqToSet(s) == {s[i] : i \in 1..Len(s)}

valid_styles == SeqToSet(CanonicalStyles)

InvalidIds == {"legal", "poetic"}

StyleIds == valid_styles \cup InvalidIds

\* the ids the explicit lists of the model are made of
ListIds == {"client", "management"} \cup InvalidIds

SeqsUpTo(S, n) == UNION {[1..k -> S] : k \in 0..n}

\* the styles argument: omitted (None) or an explicit list
StyleArgs ==
    {[given |-> FALSE, list |-> <<>>]} \cup
    {[given |-> TRUE, list |-> l] : l \in SeqsUpTo(ListIds, MaxList)}

(***************************************************************************)
(* Outcomes of one generation invocation                                   *)
(*   fault: an exception is raised inside the try block before the content *)
(*          is in hand (client.chat.completions.create raises, or the      *)
(*          response carries no content and .strip() raises)               *)
(*   text:  the response carries the string content                        *)
(***************************************************************************)
ERR_TAG == "[ERRORE]"
NOT_REQUESTED == <<"[NON GENERATO]", SP, "Stile non richiesto">>

GenTexts ==
    { <<>>, <<SP>>, <<SP, "x", "\n">>, <<ERR_TAG, SP, "x">>, NOT_REQUESTED }

GenOutcomes ==
    {[kind |-> "fault", content |-> <<>>]} \cup
    {[kind |-> "text", content |-> c] : c \in GenTexts}

(***************************************************************************)
(* AIProcessor._generate_summary_for_style, from the response on           *)
(***************************************************************************)
\* the f-string of line 270 and the returned slot of line 272
generation_error_msg(style, reason) ==
    <<"Errore nella generazione per stile", style, ":", reason>>

error_slot(msg) == <<ERR_TAG, SP>> \o msg

\* lines 260-272: what the call does with the outcome o of the invocation
\* ret: the returned string; ok: which counter is incremented
generate_summary_outcome(style, o) ==
    IF o.kind = "fault"
    THEN [ok |-> FALSE,
          ret |-> error_slot(generation_error_msg(style, "API error"))]
    ELSE IF strip_tokens(o.content) = <<>>
    THEN [ok |-> FALSE,
          ret |-> error_slot(generation_error_msg(style,
                     "GPT-4 ha restituito contenuto vuoto per stile"))]
    ELSE [ok |-> TRUE, ret |-> strip_tokens(o.content)]

(***************************************************************************)
(* AIProcessor.process_text: the preconditions                             *)
(***************************************************************************)
NoError == [type |-> "none"]
NoResult == [none |-> TRUE]

\* text_error with the length taken before trimming
text_error_untrimmed(t) ==
    IF text_len(t) = 0 \/ text_strip(t).body = 0
    THEN [type |-> "ValueError", msg |-> "Testo di input vuoto o non valido",
          offending |-> {}]
    ELSE IF text_len(t) < MinChars
    THEN [type |-> "ValueError", msg |-> "Testo troppo corto (minimo 50 caratteri)",
          offending |-> {}]
    ELSE [type |-> "none"]

\* lines 289-294
text_error(t) ==
    IF text_len(t) = 0 \/ text_strip(t).body = 0
    THEN [type |-> "ValueError", msg |-> "Testo di input vuoto o non valido",
          offending |-> {}]
    ELSE IF text_strip(t).body < MinChars
    THEN [type |-> "ValueError", msg |-> "Testo troppo corto (minimo 50 caratteri)",
          offending |-> {}]
    ELSE NoError

\* lines 300-301
\* the requested styles put into the order of the catalog
default_styles_catalog_order(arg) ==
    IF arg.given
    THEN SelectSeq(CanonicalStyles, LAMBDA c : c \in SeqToSet(arg.list))
         \o SelectSeq(arg.list, LAMBDA c : c \notin valid_styles)
    ELSE CanonicalStyles

\* the default taken for an empty list as for an omitted one
default_styles_when_empty(arg) ==
    IF arg.given /\ arg.list # <<>> THEN arg.list ELSE CanonicalStyles

default_styles(arg) == IF arg.given THEN arg.list ELSE CanonicalStyles

\* invalid_styles stopping at the first offending id
invalid_styles_first(l) ==
    IF \E i \in 1..Len(l) : l[i] \notin valid_styles
    THEN {l[CHOOSE i \in 1..Len(l) :
              /\ l[i] \notin valid_styles
              /\ \A j \in 1..(i - 1) : l[j] \in valid_styles]}
    ELSE {}

\* lines 304-305
invalid_styles(l) == SeqToSet(l) \ valid_styles

\* lines 306-307
styles_error(l) ==
    IF invalid_styles(l) # {}
    THEN [type |-> "ValueError", msg |-> "Stili non validi",
          offending |-> invalid_styles(l)]
    ELSE NoError

\* precondition_error without the validation of the styles
precondition_error_text_only(t, arg) == text_error(t)

\* lines 289-307 in order: the first failing check raises
precondition_error(t, arg) ==
    IF text_error(t) # NoError THEN text_error(t)
    ELSE styles_error(default_styles(arg))

\* lines 310-315
initial_metadata(t) ==
    [input_length |-> text_len(t),
     styles_processed |-> <<>>,
     processing_errors |-> <<>>]

EmptyResults == [s \in {} |-> <<>>]

put(d, k, v) == [s \in DOMAIN d \cup {k} |-> IF s = k THEN v ELSE d[s]]

stats_total(st) == st.total_requests
\* the invocation made without counting the request
add_total_skipped(st) == st

add_total(st) == [st EXCEPT !.total_requests = @ + 1]
add_success(st) == [st EXCEPT !.successful_requests = @ + 1]
add_failed_forgotten(st) == st
add_failed(st) == [st EXCEPT !.failed_requests = @ + 1]

ZeroStats ==
    [total_requests |-> 0, successful_requests |-> 0, failed_requests |-> 0]

\* no get_processing_stats result at hand
NoStats == [none |-> TRUE]

(***************************************************************************)
(* Initial state: AIProcessor.__init__ (lines 120-127), no call made yet   *)
(***************************************************************************)
InitAI ==
    /\ processing_stats = ZeroStats
    /\ pc = "idle"
    /\ text = [lead |-> 0, body |-> 0, trail |-> 0]
    /\ styles_arg = [given |-> FALSE, list |-> <<>>]
    /\ styles = <<>>
    /\ idx = 1
    /\ results = EmptyResults
    /\ processing_metadata = initial_metadata([lead |-> 0, body |-> 0, trail |-> 0])
    /\ result = NoResult
    /\ error = NoError
    /\ stats0 = ZeroStats
    /\ attempts = <<>>
    /\ ai_event = "init"
    /\ stats_view = NoStats

NoCallRunning == pc = "idle"

(***************************************************************************)
(* process_text(t, arg), lines 289-315: the checks, then the locals        *)
(***************************************************************************)
process_text(t, arg) ==
    /\ NoCallRunning
    /\ stats_total(processing_stats) + Len(default_styles(arg)) <= MaxTotal
    /\ text' = t
    /\ styles_arg' = arg
    /\ stats0' = processing_stats
    /\ attempts' = <<>>
    /\ result' = NoResult
    /\ results' = EmptyResults
    /\ processing_metadata' = initial_metadata(t)
    /\ idx' = 1
    /\ IF precondition_error(t, arg) # NoError
       THEN /\ error' = precondition_error(t, arg)
            /\ pc' = "raised"
            /\ styles' = <<>>
       ELSE /\ error' = NoError
            /\ pc' = "loop"
            /\ styles' = default_styles(arg)
    /\ ai_event' = "process_text"
    /\ stats_view' = NoStats
    /\ UNCHANGED processing_stats

(***************************************************************************)
(* One iteration of the loop of lines 318-329, up to the invocation:       *)
(* _generate_summary_for_style lines 236-258.  A style that is not in the  *)
(* catalog raises ValueError (line 239), caught at line 325.               *)
(***************************************************************************)
unsupported_msg(style) ==
    <<"Errore nel processing stile", style, ":", "Stile non supportato">>

begin_generation ==
    /\ pc = "loop"
    /\ idx <= Len(styles)
    /\ LET style == styles[idx] IN
       IF style \notin valid_styles
       THEN /\ results' = put(results, style, error_slot(unsupported_msg(style)))
            /\ processing_metadata' =
                 [processing_metadata EXCEPT
                    !.processing_errors = Append(@, unsupported_msg(style))]
            /\ idx' = idx + 1
            /\ UNCHANGED <<processing_stats, pc, attempts>>
       ELSE /\ processing_stats' = add_total(processing_stats)
            /\ pc' = "inflight"
            /\ attempts' = Append(attempts, [style |-> style, done |-> FALSE,
                                             outcome |-> [kind |-> "pending", content |-> <<>>]])
            /\ UNCHANGED <<results, processing_metadata, idx>>
    /\ UNCHANGED <<text, styles_arg, styles, result, error, stats0,
                   ai_event, stats_view>>

(***************************************************************************)
(* The invocation completes with outcome o: lines 260-272, then lines      *)
(* 322-323 of the loop.                                                    *)
(***************************************************************************)
complete_generation(o) ==
    /\ pc = "inflight"
    /\ LET style == styles[idx]
           g == generate_summary_outcome(style, o)
       IN /\ processing_stats' =
               IF g.ok THEN add_success(processing_stats)
               ELSE add_failed(processing_stats)
          /\ results' = put(results, style, g.ret)
          /\ processing_metadata' =
               [processing_metadata EXCEPT
                  !.styles_processed = Append(@, style)]
          /\ attempts' = [attempts EXCEPT ![Len(attempts)] =
                            [style |-> style, done |-> TRUE, outcome |-> o]]
    /\ idx' = idx + 1
    /\ pc' = "loop"
    /\ UNCHANGED <<text, styles_arg, styles, result, error, stats0,
                   ai_event, stats_view>>

(***************************************************************************)
(* After the loop: lines 331-343                                           *)
(***************************************************************************)
\* fill_not_requested leaving the missing slots out
fill_not_requested_skipped(r) == r

\* lines 332-334
fill_not_requested(r) ==
    [s \in DOMAIN r \cup valid_styles |->
        IF s \in DOMAIN r THEN r[s] ELSE NOT_REQUESTED]

\* lines 336-343
make_result(r, t, md) ==
    [didactic |-> r["didactic"],
     client |-> r["client"],
     developers |-> r["developers"],
     management |-> r["management"],
     original_text |-> t,
     metadata |-> md]

finish_process_text ==
    /\ pc = "loop"
    /\ idx > Len(styles)
    /\ LET r == fill_not_requested(results) IN
       /\ results' = r
       /\ IF valid_styles \subseteq DOMAIN r
          THEN /\ result' = make_result(r, text, processing_metadata)
               /\ error' = NoError
               /\ pc' = "returned"
          ELSE /\ result' = NoResult
               /\ error' = [type |-> "KeyError", msg |-> "results", offending |-> {}]
               /\ pc' = "raised"
    /\ UNCHANGED <<processing_stats, text, styles_arg, styles, idx,
                   processing_metadata, stats0, attempts, ai_event,
                   stats_view>>

(***************************************************************************)
(* reset_stats, lines 360-366                                              *)
(***************************************************************************)
reset_stats ==
    /\ NoCallRunning
    /\ processing_stats' = ZeroStats
    /\ ai_event' = "reset_stats"
    /\ stats_view' = NoStats
    /\ UNCHANGED <<pc, text, styles_arg, styles, idx, results,
                   processing_metadata, result, error, stats0, attempts>>

(***************************************************************************)
(* get_processing_stats, lines 345-358.  The quotient of line 354 is kept  *)
(* exact, as a fraction in lowest terms: 0.0 is 0/1, 0.75 is 3/4.          *)
(***************************************************************************)
RECURSIVE gcd(_, _)
gcd(a, b) == IF b = 0 THEN a ELSE gcd(b, a % b)

Fraction(a, b) == [num |-> a \div gcd(a, b), den |-> b \div gcd(a, b)]

\* the rate computed from the failures
success_rate_of_failures(st) ==
    IF st.total_requests > 0
    THEN Fraction(st.failed_requests, st.total_requests)
    ELSE Fraction(0, 1)

\* lines 353-356
success_rate(st) ==
    IF st.total_requests > 0
    THEN Fraction(st.successful_requests, st.total_requests)
    ELSE Fraction(0, 1)

\* lines 352-358: the copy of the counters, with the rate added
stats_report(st) ==
    [total_requests |-> st.total_requests,
     successful_requests |-> st.successful_requests,
     failed_requests |-> st.failed_requests,
     success_rate |-> success_rate(st)]

get_processing_stats ==
    /\ NoCallRunning
    /\ ai_event' = "get_processing_stats"
    /\ stats_view' = stats_report(processing_stats)
    /\ UNCHANGED <<processing_stats, pc, text, styles_arg, styles, idx, results,
                   processing_metadata, result, error, stats0, attempts>>

(***************************************************************************)
(* The call is over: the caller has the ProcessingResult or the exception, *)
(* and the locals of process_text are gone.  Only processing_stats stays.  *)
(***************************************************************************)
call_over ==
    /\ pc \in {"returned", "raised"}
    /\ pc' = "idle"
    /\ text' = [lead |-> 0, body |-> 0, trail |-> 0]
    /\ styles_arg' = [given |-> FALSE, list |-> <<>>]
    /\ styles' = <<>>
    /\ idx' = 1
    /\ results' = EmptyResults
    /\ processing_metadata' = initial_metadata([lead |-> 0, body |-> 0, trail |-> 0])
    /\ result' = NoResult
    /\ error' = NoError
    /\ stats0' = processing_stats
    /\ attempts' = <<>>
    /\ UNCHANGED <<processing_stats, ai_event, stats_view>>


(***************************************************************************)
(*                          DocumentProcessor                              *)
(***************************************************************************)
(* Strings of code points; str.strip() strips the Unicode whitespace       *)
(***************************************************************************)
NL == 10

Whitespace ==
    {9, 10, 11, 12, 13, 28, 29, 30, 31, 32, 133, 160, 5760, 8232, 8233,
     8239, 8287, 12288} \cup (8192..8202)

RECURSIVE lstrip(_)
lstrip(s) ==
    IF s = <<>> THEN <<>>
    ELSE IF Head(s) \in Whitespace THEN lstrip(Tail(s))
    ELSE s

RECURSIVE rstrip(_)
rstrip(s) ==
    IF s = <<>> THEN <<>>
    ELSE IF s[Len(s)] \in Whitespace THEN rstrip(SubSeq(s, 1, Len(s) - 1))
    ELSE s

strip(s) == rstrip(lstrip(s))

RECURSIVE join(_, _)
join(sep, l) ==
    IF l = <<>> THEN <<>>
    ELSE IF Len(l) = 1 THEN l[1]
    ELSE l[1] \o <<sep>> \o join(sep, Tail(l))

(***************************************************************************)
(* Paths: a file name is a sequence of pieces, "." or a run of other       *)
(* characters.  Path(file_path).suffix.lower()                             *)
(***************************************************************************)
Paths ==
    { <<"a", ".", "txt">>, <<"c", ".", "PDF">>, <<"d", ".", "docx">>,
      <<"e", ".", "exe">> }

\* the index of the last "." of the name, 0 if there is none
last_dot(name) ==
    IF \E i \in 1..Len(name) : name[i] = "."
    THEN CHOOSE i \in 1..Len(name) :
            /\ name[i] = "."
            /\ \A j \in (i + 1)..Len(name) : name[j] # "."
    ELSE 0

\* pathlib: the suffix starts at the last dot, unless that dot is the first
\* or the last character of the name
suffix(name) ==
    LET i == last_dot(name) IN
    IF 1 < i /\ i < Len(name) THEN SubSeq(name, i, Len(name)) ELSE <<>>

lower_piece(w) ==
    CASE w = "TXT" -> "txt"
      [] w = "PDF" -> "pdf"
      [] w = "DOCX" -> "docx"
      [] w = "DOC" -> "doc"
      [] w = "EXE" -> "exe"
      [] w = "Pdf" -> "pdf"
      [] OTHER -> w

lower(s) == [i \in 1..Len(s) |-> lower_piece(s[i])]

RECURSIVE trim_path(_)
\* pathlib drops the separators and the "." components that end a path
trim_path(p) ==
    IF p = <<>> THEN p
    ELSE IF p[Len(p)] = "/" THEN trim_path(SubSeq(p, 1, Len(p) - 1))
    ELSE IF p[Len(p)] = "." /\ (Len(p) = 1 \/ p[Len(p) - 1] = "/")
    THEN trim_path(SubSeq(p, 1, Len(p) - 1))
    ELSE p

\* Path(file_path).name: the final component
path_name(file_path) ==
    LET q == trim_path(file_path)
        S == {i \in 1..Len(q) : q[i] = "/"}
        k == IF S = {} THEN 0 ELSE CHOOSE i \in S : \A j \in S : j <= i
    IN SubSeq(q, k + 1, Len(q))

\* the suffix compared as it is spelled
path_suffix_case_sensitive(file_path) == suffix(path_name(file_path))

\* Path(file_path).suffix.lower()
path_suffix(file_path) == lower(suffix(path_name(file_path)))

SUPPORTED_EXTENSIONS ==
    { <<".", "pdf">>, <<".", "docx">>, <<".", "doc">>, <<".", "txt">> }

\* lines 41-42
is_supported_format(file_path) ==
    path_suffix(file_path) \in SUPPORTED_EXTENSIONS

(***************************************************************************)
(* What a call does: return a string or raise                              *)
(***************************************************************************)
Return(t) == [kind |-> "return", text |-> t, type |-> "", msg |-> ""]
Raise(ty, m) == [kind |-> "raise", text |-> <<>>, type |-> ty, msg |-> m]
NoCall == [kind |-> "none", text |-> <<>>, type |-> "", msg |-> ""]

exists(file) == file # <<>>

(***************************************************************************)
(* Decoders of open(file_path, 'r', encoding=...).read(), on the bytes of  *)
(* the file.  ok = FALSE is UnicodeDecodeError.                            *)
(***************************************************************************)
DecodeError == [ok |-> FALSE, text |-> <<>>]
Decoded(t) == [ok |-> TRUE, text |-> t]

IsCont(b) == 128 <= b /\ b <= 191

RECURSIVE utf8_points(_)
\* the code points of b, or <<-1>> at the first malformed sequence
utf8_points(b) ==
    IF b = <<>> THEN <<>>
    ELSE LET b1 == b[1] IN
      IF b1 < 128
      THEN LET r == utf8_points(Tail(b)) IN
           IF r = <<-1>> THEN r ELSE <<b1>> \o r
      ELSE IF 194 <= b1 /\ b1 <= 223 /\ Len(b) >= 2 /\ IsCont(b[2])
      THEN LET r == utf8_points(SubSeq(b, 3, Len(b))) IN
           IF r = <<-1>> THEN r
           ELSE <<(b1 - 192) * 64 + (b[2] - 128)>> \o r
      ELSE IF /\ 224 <= b1 /\ b1 <= 239 /\ Len(b) >= 3
              /\ IsCont(b[2]) /\ IsCont(b[3])
              /\ (b1 = 224 => b[2] >= 160)
              /\ (b1 = 237 => b[2] <= 159)
      THEN LET r == utf8_points(SubSeq(b, 4, Len(b))) IN
           IF r = <<-1>> THEN r
           ELSE <<(b1 - 224) * 4096 + (b[2] - 128) * 64 + (b[3] - 128)>> \o r
      ELSE <<-1>>

decode_utf8(b) ==
    IF utf8_points(b) = <<-1>> THEN DecodeError ELSE Decoded(utf8_points(b))

IsHighSurrogate(u) == 55296 <= u /\ u <= 56319
IsLowSurrogate(u) == 56320 <= u /\ u <= 57343

RECURSIVE utf16le_points(_)
utf16le_points(b) ==
    IF b = <<>> THEN <<>>
    ELSE IF Len(b) = 1 THEN <<-1>>
    ELSE LET u == b[1] + 256 * b[2] IN
      IF IsLowSurrogate(u) THEN <<-1>>
      ELSE IF IsHighSurrogate(u)
      THEN IF Len(b) >= 4 /\ IsLowSurrogate(b[3] + 256 * b[4])
           THEN LET r == utf16le_points(SubSeq(b, 5, Len(b))) IN
                IF r = <<-1>> THEN r
                ELSE <<65536 + (u - 55296) * 1024 + (b[3] + 256 * b[4] - 56320)>> \o r
           ELSE <<-1>>
      ELSE LET r == utf16le_points(SubSeq(b, 3, Len(b))) IN
           IF r = <<-1>> THEN r ELSE <<u>> \o r

swap_pairs(b) ==
    [i \in 1..Len(b) |->
        IF i % 2 = 1 THEN (IF i + 1 <= Len(b) THEN b[i + 1] ELSE b[i])
        ELSE b[i - 1]]

\* the utf-16 codec: a byte order mark decides the order and is dropped,
\* without one the order is little-endian
decode_utf16(b) ==
    LET body ==
          IF Len(b) >= 2 /\ b[1] = 255 /\ b[2] = 254 THEN SubSeq(b, 3, Len(b))
          ELSE IF Len(b) >= 2 /\ b[1] = 254 /\ b[2] = 255
          THEN swap_pairs(SubSeq(b, 3, Len(b)))
          ELSE b
        pts == IF Len(body) % 2 = 1 THEN <<-1>> ELSE utf16le_points(body)
    IN IF pts = <<-1>> THEN DecodeError ELSE Decoded(pts)

decode_latin1(b) == Decoded(b)

Cp1252Undefined == {129, 141, 143, 144, 157}

cp1252_point(x) ==
    CASE x = 128 -> 8364 [] x = 130 -> 8218 [] x = 131 -> 402
      [] x = 132 -> 8222 [] x = 133 -> 8230 [] x = 134 -> 8224
      [] x = 135 -> 8225 [] x = 136 -> 710 [] x = 137 -> 8240
      [] x = 138 -> 352 [] x = 139 -> 8249 [] x = 140 -> 338
      [] x = 142 -> 381 [] x = 145 -> 8216 [] x = 146 -> 8217
      [] x = 147 -> 8220 [] x = 148 -> 8221 [] x = 149 -> 8226
      [] x = 150 -> 8211 [] x = 151 -> 8212 [] x = 152 -> 732
      [] x = 153 -> 8482 [] x = 154 -> 353 [] x = 155 -> 8250
      [] x = 156 -> 339 [] x = 158 -> 382 [] x = 159 -> 376
      [] OTHER -> x

decode_cp1252(b) ==
    IF \E i \in 1..Len(b) : b[i] \in Cp1252Undefined THEN DecodeError
    ELSE Decoded([i \in 1..Len(b) |-> cp1252_point(b[i])])

decode(encoding, b) ==
    CASE encoding = "utf-8" -> decode_utf8(b)
      [] encoding = "utf-16" -> decode_utf16(b)
      [] encoding = "latin-1" -> decode_latin1(b)
      [] encoding = "cp1252" -> decode_cp1252(b)

\* line 146
encodings == <<"utf-8", "utf-16", "latin-1", "cp1252">>

(***************************************************************************)
(* extract_text_from_txt, lines 142-163                                    *)
(***************************************************************************)
RECURSIVE try_encodings_passing_empty(_, _)
\* the loop going on to the next encoding when the content is empty
try_encodings_passing_empty(bytes, i) ==
    IF i > Len(encodings)
    THEN Raise("Exception", "Impossibile decodificare il file TXT")
    ELSE LET d == decode(encodings[i], bytes) IN
         IF ~d.ok THEN try_encodings_passing_empty(bytes, i + 1)
         ELSE IF strip(d.text) # <<>> THEN Return(strip(d.text))
         ELSE try_encodings_passing_empty(bytes, i + 1)

RECURSIVE try_encodings_decoding_failure(_, _)
\* the loop reporting empty content as a failure to decode
try_encodings_decoding_failure(bytes, i) ==
    IF i > Len(encodings)
    THEN Raise("Exception", "Impossibile decodificare il file TXT")
    ELSE LET d == decode(encodings[i], bytes) IN
         IF ~d.ok THEN try_encodings_decoding_failure(bytes, i + 1)
         ELSE IF strip(d.text) # <<>> THEN Return(strip(d.text))
         ELSE Raise("Exception", "Impossibile decodificare il file TXT")

RECURSIVE try_encodings(_, _)
\* the loop of lines 148-163 from encodings[i] on
try_encodings(bytes, i) ==
    IF i > Len(encodings)
    THEN Raise("Exception", "Impossibile decodificare il file TXT")
    ELSE LET d == decode(encodings[i], bytes) IN
         IF ~d.ok THEN try_encodings(bytes, i + 1)
         ELSE IF strip(d.text) # <<>> THEN Return(strip(d.text))
         ELSE Raise("Exception", "Errore nella lettura del file TXT: File TXT vuoto")

extract_text_from_txt(file) ==
    IF ~exists(file) THEN Raise("FileNotFoundError", "File TXT non trovato")
    ELSE try_encodings(file[1], 1)

(***************************************************************************)
(* extract_text_from_pdf, lines 58-83.  A PDF is readable or not, and has  *)
(* pages; page.extract_text() gives a string or raises.                    *)
(***************************************************************************)
RECURSIVE pdf_text_content_stopping(_)
\* the loop giving up at the first page that raises
pdf_text_content_stopping(pages) ==
    IF pages = <<>> THEN <<>>
    ELSE LET page == pages[1] IN
         IF ~page.ok THEN <<>>
         ELSE IF strip(page.text) # <<>>
         THEN <<page.text>> \o pdf_text_content_stopping(Tail(pages))
         ELSE pdf_text_content_stopping(Tail(pages))

RECURSIVE pdf_text_content(_)
\* lines 66-73
pdf_text_content(pages) ==
    IF pages = <<>> THEN <<>>
    ELSE LET page == pages[1]
             rest == pdf_text_content(Tail(pages))
         IN IF page.ok /\ strip(page.text) # <<>>
            THEN <<page.text>> \o rest
            ELSE rest

extract_text_from_pdf(file) ==
    IF ~exists(file) THEN Raise("FileNotFoundError", "File PDF non trovato")
    ELSE IF ~file[1].readable
    THEN Raise("Exception", "Errore nell'estrazione da PDF")
    ELSE LET extracted_text == strip(join(NL, pdf_text_content(file[1].pages))) IN
         IF extracted_text = <<>>
         THEN Raise("Exception", "Errore nell'estrazione da PDF")
         ELSE Return(extracted_text)

(***************************************************************************)
(* extract_text_from_docx, lines 99-126.  A document is readable or not,   *)
(* and has paragraphs and the cells of its tables in row-major order.      *)
(***************************************************************************)
RECURSIVE stripped_non_empty(_)
\* lines 107-109 and 112-116
stripped_non_empty(texts) ==
    IF texts = <<>> THEN <<>>
    ELSE IF strip(texts[1]) # <<>>
    THEN <<strip(texts[1])>> \o stripped_non_empty(Tail(texts))
    ELSE stripped_non_empty(Tail(texts))

\* the extraction returning whatever it has joined, blank or not
extract_text_from_docx_allowing_empty(file) ==
    IF ~exists(file) THEN Raise("FileNotFoundError", "File DOCX non trovato")
    ELSE IF ~file[1].readable
    THEN Raise("Exception", "Errore nell'estrazione da DOCX")
    ELSE Return(strip(join(NL, stripped_non_empty(file[1].paragraphs) \o
                               stripped_non_empty(file[1].cells))))

extract_text_from_docx(file) ==
    IF ~exists(file) THEN Raise("FileNotFoundError", "File DOCX non trovato")
    ELSE IF ~file[1].readable
    THEN Raise("Exception", "Errore nell'estrazione da DOCX")
    ELSE LET text_content ==
               stripped_non_empty(file[1].paragraphs) \o
               stripped_non_empty(file[1].cells)
             extracted_text == strip(join(NL, text_content))
         IN IF extracted_text = <<>>
            THEN Raise("Exception", "Errore nell'estrazione da DOCX")
            ELSE Return(extracted_text)

(***************************************************************************)
(* extract_text, lines 180-210                                             *)
(***************************************************************************)
\* lines 193-204
route(file_path, file) ==
    LET file_extension == path_suffix(file_path) IN
    IF file_extension = <<".", "pdf">> THEN extract_text_from_pdf(file)
    ELSE IF file_extension \in {<<".", "docx">>, <<".", "doc">>}
    THEN extract_text_from_docx(file)
    ELSE IF file_extension = <<".", "txt">> THEN extract_text_from_txt(file)
    ELSE Raise("ValueError", "Estensione non gestita")

\* line 190: the cache holds this path and a non-empty text
cache_hit_ignoring_path(file_path, lpf, let) ==
    /\ let # <<>>
    /\ let[1] # <<>>

cache_hit(file_path, lpf, let) ==
    /\ lpf = <<file_path>>
    /\ let # <<>>
    /\ let[1] # <<>>

\* extract_text_call emptying the slot when another path is requested
extract_text_call_invalidating(file_path, file, lpf, let) ==
    IF ~is_supported_format(file_path)
    THEN [ret |-> Raise("ValueError", "Formato file non supportato"),
          opened |-> FALSE, lpf |-> lpf, let |-> let]
    ELSE IF cache_hit(file_path, lpf, let)
    THEN [ret |-> Return(let[1]), opened |-> FALSE, lpf |-> lpf, let |-> let]
    ELSE LET r == route(file_path, file) IN
         IF r.kind = "return"
         THEN [ret |-> r, opened |-> TRUE,
               lpf |-> <<file_path>>, let |-> <<r.text>>]
         ELSE [ret |-> r, opened |-> exists(file), lpf |-> <<>>, let |-> <<>>]

\* extract_text_call testing the existence of the file before its format
extract_text_call_existence_first(file_path, file, lpf, let) ==
    IF ~exists(file)
    THEN [ret |-> Raise("FileNotFoundError", "File non trovato"),
          opened |-> FALSE, lpf |-> lpf, let |-> let]
    ELSE IF ~is_supported_format(file_path)
    THEN [ret |-> Raise("ValueError", "Formato file non supportato"),
          opened |-> FALSE, lpf |-> lpf, let |-> let]
    ELSE IF cache_hit(file_path, lpf, let)
    THEN [ret |-> Return(let[1]), opened |-> FALSE, lpf |-> lpf, let |-> let]
    ELSE LET r == route(file_path, file) IN
         IF r.kind = "return"
         THEN [ret |-> r, opened |-> TRUE,
               lpf |-> <<file_path>>, let |-> <<r.text>>]
         ELSE [ret |-> r, opened |-> exists(file), lpf |-> lpf, let |-> let]

\* the call: what it does, whether it read the file, and the cache after it
extract_text_call(file_path, file, lpf, let) ==
    IF ~is_supported_format(file_path)
    THEN [ret |-> Raise("ValueError", "Formato file non supportato"),
          opened |-> FALSE, lpf |-> lpf, let |-> let]
    ELSE IF cache_hit(file_path, lpf, let)
    THEN [ret |-> Return(let[1]), opened |-> FALSE, lpf |-> lpf, let |-> let]
    ELSE LET r == route(file_path, file) IN
         IF r.kind = "return"
         THEN [ret |-> r, opened |-> TRUE,
               lpf |-> <<file_path>>, let |-> <<r.text>>]
         ELSE [ret |-> r, opened |-> exists(file), lpf |-> lpf, let |-> let]

(***************************************************************************)
(* The contents a file of the model can have, by the extension of its path *)
(***************************************************************************)
TxtData ==
    { <<>>, <<32>>, <<65, 32>>, <<233>>, <<233, 65>>, <<195, 169>> }

Page(t) == [ok |-> TRUE, text |-> t]
BadPage == [ok |-> FALSE, text |-> <<>>]

PdfData ==
    { [readable |-> FALSE, pages |-> <<>>],
      [readable |-> TRUE, pages |-> <<>>],
      [readable |-> TRUE, pages |-> <<BadPage, Page(<<66, 32>>)>>],
      [readable |-> TRUE, pages |-> <<Page(<<32>>), BadPage>>],
      [readable |-> TRUE, pages |-> <<Page(<<65>>), Page(<<32, 66>>)>>] }

DocxData ==
    { [readable |-> FALSE, paragraphs |-> <<>>, cells |-> <<>>],
      [readable |-> TRUE, paragraphs |-> <<<<32>>>>, cells |-> <<>>],
      [readable |-> TRUE, paragraphs |-> <<<<80, 32>>, <<>>>>,
                          cells |-> <<<<32, 67>>>>] }

OtherData == { <<77, 90>> }

DataOf(p) ==
    LET e == path_suffix(p) IN
    IF e = <<".", "txt">> THEN TxtData
    ELSE IF e = <<".", "pdf">> THEN PdfData
    ELSE IF e \in {<<".", "docx">>, <<".", "doc">>} THEN DocxData
    ELSE OtherData

(***************************************************************************)
(* Initial state: DocumentProcessor.__init__ (lines 28-29), no file yet    *)
(***************************************************************************)
InitDoc ==
    /\ fs = [p \in Paths |-> <<>>]
    /\ last_processed_file = <<>>
    /\ last_extracted_text = <<>>
    /\ doc_event = "init"
    /\ doc_path = <<>>
    /\ doc_ret = NoCall
    /\ doc_opened = FALSE
    /\ prev_ok = <<>>

\* path and text of the last successful extract_text call so far
last_ok ==
    IF doc_event = "none" \/ doc_ret.kind # "return" THEN prev_ok
    ELSE <<[path |-> doc_path, text |-> doc_ret.text]>>

extract_text(file_path) ==
    LET c == extract_text_call(file_path, fs[file_path],
                               last_processed_file, last_extracted_text)
    IN /\ last_processed_file' = c.lpf
       /\ last_extracted_text' = c.let
       /\ doc_ret' = c.ret
       /\ doc_opened' = c.opened
       /\ doc_path' = file_path
       /\ doc_event' = "extract_text"
       /\ prev_ok' = last_ok
       /\ UNCHANGED fs

(***************************************************************************)
(* The files change from outside the program                               *)
(***************************************************************************)
write_file(p, d) ==
    /\ fs[p] # <<d>>
    /\ fs' = [fs EXCEPT ![p] = <<d>>]
    /\ doc_event' = "write_file"
    /\ prev_ok' = last_ok
    /\ doc_ret' = NoCall
    /\ doc_opened' = FALSE
    /\ UNCHANGED <<last_processed_file, last_extracted_text, doc_path>>

delete_file(p) ==
    /\ fs[p] # <<>>
    /\ fs' = [fs EXCEPT ![p] = <<>>]
    /\ doc_event' = "delete_file"
    /\ prev_ok' = last_ok
    /\ doc_ret' = NoCall
    /\ doc_opened' = FALSE
    /\ UNCHANGED <<last_processed_file, last_extracted_text, doc_path>>

(***************************************************************************)
(* The functions of the extractor on their own: an argument is drawn, and  *)
(* the function is applied to it on a DocumentProcessor just constructed.  *)
(***************************************************************************)
ProbeBytes == {0, 32, 65, 160, 169, 195, 233, 254, 255}
ProbeFiles == SeqsUpTo(ProbeBytes, MaxFileLen)

ProbePageKinds ==
    { BadPage, Page(<<32>>), Page(<<65>>), Page(<<32, 66>>), Page(<<67, 32>>) }
ProbePdfs == SeqsUpTo(ProbePageKinds, MaxPages)

NamePieces == {"a", ".", "/", "txt", "TXT", "Pdf", "docx", "doc", "exe"}
ProbePaths == SeqsUpTo(NamePieces, MaxName)

TxtPath == <<"a", ".", "txt">>

Probes ==
    [fn : {"extract_text_from_txt", "extract_text"}, arg : ProbeFiles]
    \cup [fn : {"extract_text_from_pdf"}, arg : ProbePdfs]
    \cup [fn : {"is_supported_format"}, arg : ProbePaths]

NoProbe == [fn |-> "none", arg |-> <<>>]
NotApplied == [applied |-> FALSE, value |-> <<>>]
Applied(v) == [applied |-> TRUE, value |-> v]

InitProbe ==
    /\ probe = NoProbe
    /\ probe_out = NotApplied

apply_extract_text_from_txt ==
    /\ probe.fn = "extract_text_from_txt"
    /\ ~probe_out.applied
    /\ probe_out' = Applied(extract_text_from_txt(<<probe.arg>>))
    /\ UNCHANGED probe

apply_extract_text ==
    /\ probe.fn = "extract_text"
    /\ ~probe_out.applied
    /\ probe_out' =
          Applied(extract_text_call(TxtPath, <<probe.arg>>, <<>>, <<>>).ret)
    /\ UNCHANGED probe

apply_extract_text_from_pdf ==
    /\ probe.fn = "extract_text_from_pdf"
    /\ ~probe_out.applied
    /\ probe_out' =
          Applied(extract_text_from_pdf(
                     <<[readable |-> TRUE, pages |-> probe.arg]>>))
    /\ UNCHANGED probe

apply_is_supported_format ==
    /\ probe.fn = "is_supported_format"
    /\ ~probe_out.applied
    /\ probe_out' = Applied(is_supported_format(probe.arg))
    /\ UNCHANGED probe

(***************************************************************************)
(* get_file_info and the concurrent calls are at rest until they are used  *)
(***************************************************************************)
NoInfo == [none |-> TRUE]

InitInfo ==
    /\ info_pc = "idle"
    /\ info_path = <<>>
    /\ info = NoInfo
    /\ info_ret = NoInfo

(***************************************************************************)
(* get_file_info, lines 222-231.  The dict is built entry by entry: every  *)
(* path_obj.exists() and every path_obj.stat() is a step of its own, and   *)
(* the files can change between two steps.                                 *)
(***************************************************************************)
\* the size of a file that is not plain text: its bytes are not modelled
OtherSize == 2

\* path_obj.stat().st_size of an existing file
st_size(file_path, file) ==
    IF path_suffix(file_path) = <<".", "txt">> THEN Len(file[1])
    ELSE IF path_suffix(file_path) = <<".", "pdf">> /\ "size" \in DOMAIN file[1]
    THEN file[1].size
    ELSE OtherSize

\* round(size / (1024*1024), 2), in hundredths, halves to the even digit
size_mb(size) ==
    LET d == 1024 * 1024
        q == (size * 100) \div d
        r == (size * 100) % d
    IN IF 2 * r > d \/ (2 * r = d /\ q % 2 = 1) THEN q + 1 ELSE q

\* lines 222, 225, 226
get_file_info(file_path) ==
    /\ info_pc \in {"idle", "returned", "raised"}
    /\ info_path' = file_path
    /\ info' = [filename |-> path_name(file_path),
                extension |-> path_suffix(file_path)]
    /\ info_ret' = NoInfo
    /\ info_pc' = "size_bytes_exists"

\* line 227: path_obj.exists()
info_size_bytes_exists ==
    /\ info_pc = "size_bytes_exists"
    /\ IF exists(fs[info_path])
       THEN /\ info_pc' = "size_bytes_stat"
            /\ UNCHANGED info
       ELSE /\ info_pc' = "size_mb_exists"
            /\ info' = put(info, "size_bytes", 0)
    /\ UNCHANGED <<info_path, info_ret>>

\* line 227: path_obj.stat().st_size
info_size_bytes_stat ==
    /\ info_pc = "size_bytes_stat"
    /\ IF exists(fs[info_path])
       THEN /\ info_pc' = "size_mb_exists"
            /\ info' = put(info, "size_bytes", st_size(info_path, fs[info_path]))
            /\ UNCHANGED info_ret
       ELSE /\ info_pc' = "raised"
            /\ info_ret' = Raise("FileNotFoundError", "No such file or directory")
            /\ UNCHANGED info
    /\ UNCHANGED info_path

\* line 228: path_obj.exists()
info_size_mb_exists ==
    /\ info_pc = "size_mb_exists"
    /\ IF exists(fs[info_path])
       THEN /\ info_pc' = "size_mb_stat"
            /\ UNCHANGED info
       ELSE /\ info_pc' = "exists"
            /\ info' = put(info, "size_mb", 0)
    /\ UNCHANGED <<info_path, info_ret>>

\* line 228: round(path_obj.stat().st_size / (1024*1024), 2)
info_size_mb_stat ==
    /\ info_pc = "size_mb_stat"
    /\ IF exists(fs[info_path])
       THEN /\ info_pc' = "exists"
            /\ info' = put(info, "size_mb",
                           size_mb(st_size(info_path, fs[info_path])))
            /\ UNCHANGED info_ret
       ELSE /\ info_pc' = "raised"
            /\ info_ret' = Raise("FileNotFoundError", "No such file or directory")
            /\ UNCHANGED info
    /\ UNCHANGED info_path

\* lines 229-231: the last two entries, and the return
info_exists ==
    /\ info_pc = "exists"
    /\ LET d == put(put(info, "exists", exists(fs[info_path])),
                    "is_supported", is_supported_format(info_path))
       IN /\ info' = d
          /\ info_ret' = d
    /\ info_pc' = "returned"
    /\ UNCHANGED info_path

Threads == {1, 2}

NoThreadCall == [pc |-> "idle", file_path |-> <<>>, extracted_text |-> <<>>,
                 ret |-> NoCall]

InitConc == calls = [t \in Threads |-> NoThreadCall]

(***************************************************************************)
(* extract_text called from two threads on one DocumentProcessor, lines    *)
(* 180-210.  Every read and every write of last_processed_file and of      *)
(* last_extracted_text is a step of its own; the locals file_path and      *)
(* extracted_text belong to the call.                                      *)
(***************************************************************************)
\* lines 180-187
conc_extract_text(t, file_path) ==
    /\ calls[t].pc = "idle"
    /\ calls' = [calls EXCEPT ![t] =
          IF ~is_supported_format(file_path)
          THEN [pc |-> "done", file_path |-> file_path, extracted_text |-> <<>>,
                ret |-> Raise("ValueError", "Formato file non supportato")]
          ELSE [pc |-> "lookup_path", file_path |-> file_path,
                extracted_text |-> <<>>, ret |-> NoCall]]
    /\ UNCHANGED <<last_processed_file, last_extracted_text>>

\* line 190: self.last_processed_file == file_path
conc_lookup_path(t) ==
    /\ calls[t].pc = "lookup_path"
    /\ calls' = [calls EXCEPT ![t].pc =
          IF last_processed_file = <<calls[t].file_path>>
          THEN "lookup_text" ELSE "route"]
    /\ UNCHANGED <<last_processed_file, last_extracted_text>>

\* line 190: and self.last_extracted_text
conc_lookup_text(t) ==
    /\ calls[t].pc = "lookup_text"
    /\ calls' = [calls EXCEPT ![t].pc =
          IF last_extracted_text # <<>> /\ last_extracted_text[1] # <<>>
          THEN "hit" ELSE "route"]
    /\ UNCHANGED <<last_processed_file, last_extracted_text>>

\* line 191: return self.last_extracted_text
conc_hit(t) ==
    /\ calls[t].pc = "hit"
    /\ calls' = [calls EXCEPT ![t].pc = "done",
                              ![t].ret = Return(last_extracted_text[1])]
    /\ UNCHANGED <<last_processed_file, last_extracted_text>>

\* lines 193-204
conc_route(t) ==
    /\ calls[t].pc = "route"
    /\ LET r == route(calls[t].file_path, fs[calls[t].file_path]) IN
       calls' = [calls EXCEPT ![t] =
          IF r.kind = "return"
          THEN [@ EXCEPT !.pc = "write_path", !.extracted_text = r.text]
          ELSE [@ EXCEPT !.pc = "done", !.ret = r]]
    /\ UNCHANGED <<last_processed_file, last_extracted_text>>

\* line 207
conc_write_path(t) ==
    /\ calls[t].pc = "write_path"
    /\ last_processed_file' = <<calls[t].file_path>>
    /\ calls' = [calls EXCEPT ![t].pc = "write_text"]
    /\ UNCHANGED last_extracted_text

\* lines 208-210
conc_write_text(t) ==
    /\ calls[t].pc = "write_text"
    /\ last_extracted_text' = <<calls[t].extracted_text>>
    /\ calls' = [calls EXCEPT ![t].pc = "done",
                              ![t].ret = Return(calls[t].extracted_text)]
    /\ UNCHANGED last_processed_file

\* the caller has the text or the exception
conc_over(t) ==
    /\ calls[t].pc = "done"
    /\ calls' = [calls EXCEPT ![t] = NoThreadCall]
    /\ UNCHANGED <<last_processed_file, last_extracted_text>>

\* the files the two threads read: one of each kind, with different texts
ConcFiles ==
    [p \in Paths |->
        CASE p = <<"a", ".", "txt">> -> << <<65, 32>> >>
          [] p = <<"c", ".", "PDF">> ->
               << [readable |-> TRUE,
                   pages |-> <<Page(<<65>>), Page(<<32, 66>>)>>] >>
          [] p = <<"d", ".", "docx">> ->
               << [readable |-> TRUE, paragraphs |-> <<<<80, 32>>, <<>>>>,
                   cells |-> <<<<32, 67>>>>] >>
          [] OTHER -> << <<77, 90>> >>]

InitConcDoc ==
    /\ fs = ConcFiles
    /\ last_processed_file = <<>>
    /\ last_extracted_text = <<>>
    /\ doc_event = "init"
    /\ doc_path = <<>>
    /\ doc_ret = NoCall
    /\ doc_opened = FALSE
    /\ prev_ok = <<>>

(***************************************************************************)
(* The counting threads and the AIAgent are at rest until they are used    *)
(***************************************************************************)
NoWorker == [pc |-> "idle", left |-> 0, reg |-> 0, ok |-> FALSE,
             total |-> 0, successful |-> 0, failed |-> 0]

InitStat == workers = [t \in Threads |-> NoWorker]

(***************************************************************************)
(* _generate_summary_for_style called from two threads on one AIProcessor, *)
(* lines 244-272.  self.processing_stats[k] += 1 reads the counter and     *)
(* then writes it: two steps, with nothing to keep another thread out.     *)
(* A worker makes the invocations of one process_text call ("left" of them *)
(* to go) and keeps count of what it added itself.                         *)
(***************************************************************************)
\* process_text, lines 318-321: the call has n styles to attempt
stat_process_text(t, n) ==
    /\ workers[t].pc = "idle"
    /\ workers' = [workers EXCEPT ![t] =
          [NoWorker EXCEPT !.pc = "read_total", !.left = n]]
    /\ UNCHANGED processing_stats

\* line 245: the read of self.processing_stats['total_requests']
stat_read_total(t) ==
    /\ workers[t].pc = "read_total"
    /\ workers' = [workers EXCEPT ![t].pc = "write_total",
                                  ![t].reg = processing_stats.total_requests]
    /\ UNCHANGED processing_stats

\* line 245: the write
stat_write_total(t) ==
    /\ workers[t].pc = "write_total"
    /\ processing_stats' =
          [processing_stats EXCEPT !.total_requests = workers[t].reg + 1]
    /\ workers' = [workers EXCEPT ![t].pc = "invoke",
                                  ![t].total = @ + 1]

\* lines 247-263: the invocation succeeds or fails
stat_invoke(t, ok) ==
    /\ workers[t].pc = "invoke"
    /\ workers' = [workers EXCEPT ![t].pc = "read_outcome", ![t].ok = ok]
    /\ UNCHANGED processing_stats

\* line 265 or line 269: the read of the counter of the outcome
stat_read_outcome(t) ==
    /\ workers[t].pc = "read_outcome"
    /\ workers' = [workers EXCEPT
          ![t].pc = "write_outcome",
          ![t].reg = IF workers[t].ok
                     THEN processing_stats.successful_requests
                     ELSE processing_stats.failed_requests]
    /\ UNCHANGED processing_stats

\* line 265 or line 269: the write, and on to the next style
stat_write_outcome(t) ==
    /\ workers[t].pc = "write_outcome"
    /\ processing_stats' =
          IF workers[t].ok
          THEN [processing_stats EXCEPT !.successful_requests = workers[t].reg + 1]
          ELSE [processing_stats EXCEPT !.failed_requests = workers[t].reg + 1]
    /\ workers' = [workers EXCEPT
          ![t].pc = IF workers[t].left = 1 THEN "done" ELSE "read_total",
          ![t].left = @ - 1,
          ![t].successful = IF workers[t].ok THEN @ + 1 ELSE @,
          ![t].failed = IF workers[t].ok THEN @ ELSE @ + 1]

NoAgentCall == [op |-> "none"]

InitAgent ==
    /\ agent_pc = "idle"
    /\ agent_call = NoAgentCall
    /\ agent_ret = NoCall

InitRest == InitStat /\ InitAgent

Init == InitAI /\ InitDoc /\ InitInfo /\ InitConc /\ InitProbe /\ InitRest

(***************************************************************************)
(* Spec: the orchestrator, one process_text call after another             *)
(***************************************************************************)
Next ==
    \/ /\ NoCallRunning
       /\ \E t \in Texts, arg \in StyleArgs : process_text(t, arg)
       /\ UNCHANGED notAiVars
    \/ begin_generation /\ UNCHANGED notAiVars
    \/ /\ pc = "inflight"
       /\ \E o \in GenOutcomes : complete_generation(o)
       /\ UNCHANGED notAiVars
    \/ finish_process_text /\ UNCHANGED notAiVars
    \/ call_over /\ UNCHANGED notAiVars
    \/ reset_stats /\ UNCHANGED notAiVars
    \/ get_processing_stats /\ UNCHANGED notAiVars

Spec == Init /\ [][Next]_vars

(***************************************************************************)
(* SpecDoc: the extractor, one extract_text call after another, while the  *)
(* files are written and deleted from outside                              *)
(***************************************************************************)
NextDoc ==
    \/ \E p \in Paths : extract_text(p) /\ UNCHANGED notDocVars
    \/ \E p \in Paths : \E d \in DataOf(p) : write_file(p, d) /\ UNCHANGED notDocVars
    \/ \E p \in Paths : delete_file(p) /\ UNCHANGED notDocVars

SpecDoc == Init /\ [][NextDoc]_vars

(***************************************************************************)
(* SpecFn: one function of the extractor applied to one drawn argument     *)
(***************************************************************************)
InitFn ==
    /\ InitAI /\ InitDoc /\ InitInfo /\ InitConc /\ InitRest
    /\ probe \in Probes
    /\ probe_out = NotApplied

notProbeVars == <<aiVars, docVars, infoVars, concVars, restVars>>

NextFn ==
    \/ apply_extract_text_from_txt /\ UNCHANGED notProbeVars
    \/ apply_extract_text /\ UNCHANGED notProbeVars
    \/ apply_extract_text_from_pdf /\ UNCHANGED notProbeVars
    \/ apply_is_supported_format /\ UNCHANGED notProbeVars

SpecFn == InitFn /\ [][NextFn]_vars

(***************************************************************************)
(* SpecInfo: get_file_info step by step, while the files are written and   *)
(* deleted from outside                                                    *)
(***************************************************************************)
notInfoVars == <<aiVars, docVars, concVars, probeVars, restVars>>
notDocInfoVars == <<aiVars, concVars, probeVars, restVars>>

NextInfo ==
    \/ /\ info_pc \in {"idle", "returned", "raised"}
       /\ \E p \in Paths : get_file_info(p)
       /\ UNCHANGED notInfoVars
    \/ info_size_bytes_exists /\ UNCHANGED notInfoVars
    \/ info_size_bytes_stat /\ UNCHANGED notInfoVars
    \/ info_size_mb_exists /\ UNCHANGED notInfoVars
    \/ info_size_mb_stat /\ UNCHANGED notInfoVars
    \/ info_exists /\ UNCHANGED notInfoVars
    \/ \E p \in Paths : \E d \in DataOf(p) :
          write_file(p, d) /\ UNCHANGED <<notDocInfoVars, infoVars>>
    \/ \E p \in Paths : delete_file(p) /\ UNCHANGED <<notDocInfoVars, infoVars>>

SpecInfo == Init /\ [][NextInfo]_vars

(***************************************************************************)
(* SpecConc: two threads call extract_text on one DocumentProcessor, their *)
(* steps interleaved in every way; the files do not change                 *)
(***************************************************************************)
InitConcSpec ==
    InitAI /\ InitConcDoc /\ InitInfo /\ InitConc /\ InitProbe /\ InitRest

concFrame == <<aiVars, infoVars, probeVars, restVars, fs, doc_event, doc_path,
               doc_ret, doc_opened, prev_ok>>

NextConc ==
    \/ \E t \in Threads : \E p \in Paths :
          conc_extract_text(t, p) /\ UNCHANGED concFrame
    \/ \E t \in Threads : conc_lookup_path(t) /\ UNCHANGED concFrame
    \/ \E t \in Threads : conc_lookup_text(t) /\ UNCHANGED concFrame
    \/ \E t \in Threads : conc_hit(t) /\ UNCHANGED concFrame
    \/ \E t \in Threads : conc_route(t) /\ UNCHANGED concFrame
    \/ \E t \in Threads : conc_write_path(t) /\ UNCHANGED concFrame
    \/ \E t \in Threads : conc_write_text(t) /\ UNCHANGED concFrame
    \/ \E t \in Threads : conc_over(t) /\ UNCHANGED concFrame

SpecConc == InitConcSpec /\ [][NextConc]_vars

(***************************************************************************)
(* SpecStat: two threads, one process_text call each, count their requests *)
(* on one AIProcessor, their steps interleaved in every way                *)
(***************************************************************************)
aiLocals == <<pc, text, styles_arg, styles, idx, results, processing_metadata,
              result, error, stats0, attempts, ai_event, stats_view>>

statFrame == <<aiLocals, docVars, infoVars, concVars, probeVars, agentVars>>

NextStat ==
    \/ \E t \in Threads : \E n \in 1..MaxAttempts :
          stat_process_text(t, n) /\ UNCHANGED statFrame
    \/ \E t \in Threads : stat_read_total(t) /\ UNCHANGED statFrame
    \/ \E t \in Threads : stat_write_total(t) /\ UNCHANGED statFrame
    \/ \E t \in Threads : \E ok \in BOOLEAN :
          stat_invoke(t, ok) /\ UNCHANGED statFrame
    \/ \E t \in Threads : stat_read_outcome(t) /\ UNCHANGED statFrame
    \/ \E t \in Threads : stat_write_outcome(t) /\ UNCHANGED statFrame

SpecStat == Init /\ [][NextStat]_vars

\* print_result_summary, line 229: content.startswith("[ERRORE]")
shown_as_error(content) == Len(content) >= 1 /\ content[1] = ERR_TAG

(***************************************************************************)
(* SpecAgent: AIAgent (src/main.py), one process_text or process_file call *)
(* after another, over files that stay as they are.  The size of the PDF   *)
(* file is drawn around the configured limit; the limit is the value of    *)
(* max_file_size_mb at the time of the call.                               *)
(***************************************************************************)
\* values of processing_config['max_file_size_mb']
ConfigLimits == {1, 2}

\* sizes in bytes around limit * 1024 * 1024
SizeOffsets == {0 - 1, 0, 1, 5242, 5243}

AgentSizes == {l * 1024 * 1024 + d : l \in ConfigLimits, d \in SizeOffsets}

\* a short text file, a PDF of n bytes with one page of 50 characters,
\* no docx, a program
AgentFiles(n) ==
    [p \in Paths |->
        CASE p = <<"a", ".", "txt">> -> << <<65, 32>> >>
          [] p = <<"c", ".", "PDF">> ->
               << [readable |-> TRUE,
                   pages |-> <<Page([i \in 1..MinChars |-> 65])>>,
                   size |-> n] >>
          [] p = <<"d", ".", "docx">> -> <<>>
          [] OTHER -> << <<77, 90>> >>]

InitAgentDoc ==
    /\ \E n \in AgentSizes : fs = AgentFiles(n)
    /\ last_processed_file = <<>>
    /\ last_extracted_text = <<>>
    /\ doc_event = "init"
    /\ doc_path = <<>>
    /\ doc_ret = NoCall
    /\ doc_opened = FALSE
    /\ prev_ok = <<>>

InitAgentSpec ==
    InitAI /\ InitAgentDoc /\ InitInfo /\ InitConc /\ InitProbe /\ InitRest

\* an extracted string as the text process_text receives
text_shape(s) ==
    [lead |-> Len(s) - Len(lstrip(s)),
     body |-> Len(strip(s)),
     trail |-> Len(lstrip(s)) - Len(strip(s))]

\* raise Exception(f"Errore nel processing ...: {str(e)}")
Wrapped(m, e) ==
    [kind |-> "raise", text |-> <<>>, type |-> "Exception", msg |-> m,
     cause |-> e]

\* AIAgent.process_text, lines 160-166
agent_process_text(t) ==
    /\ agent_pc = "idle"
    /\ agent_call' = [op |-> "process_text", text |-> t]
    /\ IF text_len(t) = 0 \/ text_strip(t).body = 0
       THEN /\ agent_pc' = "raised"
            /\ agent_ret' = Raise("ValueError", "Testo vuoto o non valido")
            /\ UNCHANGED aiVars
       ELSE /\ agent_pc' = "ai"
            /\ agent_ret' = NoCall
            /\ process_text(t, [given |-> FALSE, list |-> <<>>])
    /\ UNCHANGED docVars

\* AIAgent.process_file, lines 107-127: the checks before the extraction
agent_process_file(file_path, max_size_mb) ==
    LET file == fs[file_path]
        size_bytes == IF exists(file) THEN st_size(file_path, file) ELSE 0
    IN /\ agent_pc = "idle"
       /\ agent_call' = [op |-> "process_file", path |-> file_path,
                         limit |-> max_size_mb, size_bytes |-> size_bytes,
                         extracted |-> FALSE, extracted_text |-> <<>>,
                         stats0 |-> processing_stats]
       /\ IF ~exists(file)
          THEN /\ agent_pc' = "raised"
               /\ agent_ret' = Raise("FileNotFoundError", "File non trovato")
          ELSE IF ~is_supported_format(file_path)
          THEN /\ agent_pc' = "raised"
               /\ agent_ret' = Raise("ValueError", "Formato file non supportato")
          ELSE IF size_mb(size_bytes) > max_size_mb * 100
          THEN /\ agent_pc' = "raised"
               /\ agent_ret' = Raise("ValueError", "File troppo grande")
          ELSE /\ agent_pc' = "extract"
               /\ agent_ret' = NoCall
       /\ UNCHANGED <<aiVars, docVars>>

\* lines 133-136: extract_text and the check of the extracted text
agent_extract ==
    LET c == extract_text_call(agent_call.path, fs[agent_call.path],
                               last_processed_file, last_extracted_text)
    IN /\ agent_pc = "extract"
       /\ extract_text(agent_call.path)
       /\ IF c.ret.kind = "raise"
          THEN /\ agent_pc' = "raised"
               /\ agent_ret' = Wrapped("Errore nel processing del file",
                                       [type |-> c.ret.type, msg |-> c.ret.msg])
               /\ agent_call' = [agent_call EXCEPT !.extracted = TRUE]
          ELSE IF strip(c.ret.text) = <<>>
          THEN /\ agent_pc' = "raised"
               /\ agent_ret' = Wrapped("Errore nel processing del file",
                                       [type |-> "ValueError",
                                        msg |-> "Il file non contiene testo estraibile"])
               /\ agent_call' = [agent_call EXCEPT !.extracted = TRUE]
          ELSE /\ agent_pc' = "process"
               /\ agent_ret' = NoCall
               /\ agent_call' = [agent_call EXCEPT
                                    !.extracted = TRUE,
                                    !.extracted_text = c.ret.text]
       /\ UNCHANGED aiVars

\* line 141: self.ai_processor.process_text(extracted_text)
agent_process ==
    /\ agent_pc = "process"
    /\ process_text(text_shape(agent_call.extracted_text),
                    [given |-> FALSE, list |-> <<>>])
    /\ agent_pc' = "ai"
    /\ UNCHANGED <<agent_call, agent_ret, docVars>>

\* the call of the orchestrator is over: its result is returned (lines 141,
\* 166), its exception is raised again as Exception (lines 143-144, 167-168)
agent_finish ==
    /\ agent_pc = "ai"
    /\ pc \in {"returned", "raised"}
    /\ IF pc = "returned"
       THEN /\ agent_pc' = "returned"
            /\ agent_ret' = [kind |-> "return", result |-> result]
       ELSE /\ agent_pc' = "raised"
            /\ agent_ret' =
                  Wrapped(IF agent_call.op = "process_text"
                          THEN "Errore nel processing del testo"
                          ELSE "Errore nel processing del file",
                          [type |-> error.type, msg |-> error.msg])
    /\ call_over
    /\ UNCHANGED <<agent_call, docVars>>

\* the caller has the result or the exception
agent_over ==
    /\ agent_pc \in {"returned", "raised"}
    /\ agent_pc' = "idle"
    /\ agent_call' = NoAgentCall
    /\ agent_ret' = NoCall
    /\ UNCHANGED <<aiVars, docVars>>

agentFrame == <<infoVars, concVars, probeVars, statVars>>

NextAgent ==
    \/ /\ agent_pc = "idle"
       /\ \E t \in Texts : agent_process_text(t)
       /\ UNCHANGED agentFrame
    \/ /\ agent_pc = "idle"
       /\ \E p \in Paths, l \in ConfigLimits : agent_process_file(p, l)
       /\ UNCHANGED agentFrame
    \/ agent_extract /\ UNCHANGED agentFrame
    \/ agent_process /\ UNCHANGED agentFrame
    \/ begin_generation /\ UNCHANGED notAiVars
    \/ /\ pc = "inflight"
       /\ \E o \in GenOutcomes : complete_generation(o)
       /\ UNCHANGED notAiVars
    \/ finish_process_text /\ UNCHANGED notAiVars
    \/ agent_finish /\ UNCHANGED agentFrame
    \/ agent_over /\ UNCHANGED agentFrame

SpecAgent == InitAgentSpec /\ [][NextAgent]_vars

(***************************************************************************)
(* Vocabulary of the properties, in the words of the specification         *)
(***************************************************************************)
FourStyles == {"didactic", "client", "developers", "management"}

\* the requested style list of the call: all four when none is given
ReqList ==
    IF styles_arg.given THEN styles_arg.list
    ELSE <<"didactic", "client", "developers", "management">>

ReqSet == {ReqList[i] : i \in 1..Len(ReqList)}

\* a process_text call has been made and its locals are still in view
InCall == pc # "idle"

TextLongEnough == text.body >= 50

PreconditionsPass == TextLongEnough /\ ReqSet \subseteq FourStyles

IsInputTooShort(e) ==
    /\ e.type = "ValueError"
    /\ e.msg \in {"Testo di input vuoto o non valido",
                  "Testo troppo corto (minimo 50 caratteri)"}

IsInvalidStyle(e) ==
    /\ e.type = "ValueError"
    /\ e.msg = "Stili non validi"

\* the invocation faulted, or returned an empty or whitespace-only string
FailedOutcome(o) ==
    \/ o.kind = "fault"
    \/ /\ o.kind = "text"
       /\ \A i \in 1..Len(o.content) : o.content[i] \in {" ", "\n"}

FailedAttempts ==
    {i \in 1..Len(attempts) : attempts[i].done /\ FailedOutcome(attempts[i].outcome)}

NumFailed == Cardinality(FailedAttempts)

Slot(res, s) ==
    CASE s = "didactic" -> res.didactic
      [] s = "client" -> res.client
      [] s = "developers" -> res.developers
      [] s = "management" -> res.management

IsErrorTagged(str) == Len(str) >= 1 /\ str[1] = "[ERRORE]"

IsSentinel(str) == str = <<"[NON GENERATO]", " ", "Stile non richiesto">>

IsProcessingResult(res) ==
    DOMAIN res = {"didactic", "client", "developers", "management",
                  "original_text", "metadata"}

(***************************************************************************)
(* C1: once the preconditions of process_text pass, the call raises        *)
(* nothing and ends by returning a ProcessingResult, whatever the          *)
(* outcomes of the generation invocations are, all four failing included.  *)
(***************************************************************************)
C1_ReturnsOncePreconditionsPass ==
    /\ pc = "raised" => ~PreconditionsPass
    /\ pc = "returned" => IsProcessingResult(result)
    /\ (pc = "loop" /\ idx > Len(styles)) => ENABLED finish_process_text
    /\ pc = "inflight" =>
          \A o \in GenOutcomes : ENABLED complete_generation(o)

C1_Witness ==
    /\ pc = "returned"
    /\ Len(attempts) = 4
    /\ NumFailed = 4
    /\ \E i \in 1..4 : attempts[i].outcome.kind = "fault"
    /\ \E i \in 1..4 : attempts[i].outcome.kind = "text"

(***************************************************************************)
(* C2: every returned ProcessingResult has its four slots, and a slot      *)
(* holds the "not requested" sentinel exactly when its style is not in     *)
(* the requested list; a slot that was not requested is never error-tagged.*)
(***************************************************************************)
C2_SentinelIffNotRequested ==
    pc = "returned" =>
        /\ IsProcessingResult(result)
        /\ \A s \in FourStyles :
              /\ IsSentinel(Slot(result, s)) <=> s \notin ReqSet
              /\ s \notin ReqSet => ~IsErrorTagged(Slot(result, s))

(***************************************************************************)
(* C3: processing_errors of the returned metadata has one message per      *)
(* failed style attempt of the call (fault, empty or whitespace-only       *)
(* text): its length is the number of failed attempts.                     *)
(***************************************************************************)
C3_ErrorsListed ==
    pc = "returned" =>
        Len(result.metadata.processing_errors) = NumFailed

(***************************************************************************)
(* C4: a call that passes its preconditions with k requested styles of     *)
(* which f fail adds k to total_requests, f to failed_requests and k - f   *)
(* to successful_requests, whatever the counters were before.  k counts    *)
(* the entries of the requested list.                                      *)
(***************************************************************************)
C4_StatsDeltas ==
    pc = "returned" =>
        /\ processing_stats.total_requests =
              stats0.total_requests + Len(ReqList)
        /\ processing_stats.failed_requests =
              stats0.failed_requests + NumFailed
        /\ processing_stats.successful_requests =
              stats0.successful_requests + Len(ReqList) - NumFailed

C4_Witness ==
    /\ pc = "returned"
    /\ ~styles_arg.given
    /\ stats0.total_requests > 0
    /\ FailedAttempts = {4}
    /\ attempts[4].style = "management"
    /\ processing_stats.total_requests = stats0.total_requests + 4
    /\ processing_stats.failed_requests = stats0.failed_requests + 1

(***************************************************************************)
(* C5: process_text fails with InputTooShort exactly when the trimmed      *)
(* text is empty or shorter than 50 characters, whatever its untrimmed     *)
(* length; a trimmed length of 50 goes on to the validation of the styles. *)
(***************************************************************************)
C5_InputTooShortIff ==
    InCall =>
        /\ IsInputTooShort(error) <=> text.body < 50
        /\ IsInputTooShort(error) => pc = "raised"

C5_Witness ==
    /\ pc = "raised"
    /\ IsInputTooShort(error)
    /\ text.body = 49
    /\ text.lead + text.body + text.trail >= 50

(***************************************************************************)
(* C6 as stated: a requested list with an id outside the catalog makes     *)
(* process_text fail with InvalidStyle naming exactly the offending ids,   *)
(* and a list of catalog ids never fails with InvalidStyle.                *)
(***************************************************************************)
C6_InvalidStyleWheneverOffending ==
    InCall =>
        /\ ~(ReqSet \subseteq FourStyles) =>
              /\ pc = "raised"
              /\ IsInvalidStyle(error)
              /\ error.offending = ReqSet \ FourStyles
        /\ ReqSet \subseteq FourStyles => ~IsInvalidStyle(error)

(***************************************************************************)
(* C6 amended: the text is checked first.  When the text passes its        *)
(* length precondition, a requested list with an id outside the catalog    *)
(* makes process_text fail with InvalidStyle naming exactly the offending  *)
(* ids; when the text fails it the error is InputTooShort; a list of       *)
(* catalog ids never fails with InvalidStyle.                              *)
(***************************************************************************)
C6_InvalidStyleAfterTextCheck ==
    InCall =>
        /\ (TextLongEnough /\ ~(ReqSet \subseteq FourStyles)) =>
              /\ pc = "raised"
              /\ IsInvalidStyle(error)
              /\ error.offending = ReqSet \ FourStyles
        /\ (~TextLongEnough /\ ~(ReqSet \subseteq FourStyles)) =>
              /\ pc = "raised"
              /\ IsInputTooShort(error)
        /\ ReqSet \subseteq FourStyles => ~IsInvalidStyle(error)

C6_Witness ==
    /\ pc = "raised"
    /\ IsInvalidStyle(error)
    /\ error.offending = {"legal", "poetic"}

(***************************************************************************)
(* C7: a process_text call that fails a precondition has made no           *)
(* generation invocation and has left the three counters as they were,     *)
(* also when the list mixes valid and invalid ids.                         *)
(***************************************************************************)
C7_NoEffectOnPreconditionFailure ==
    (InCall /\ ~PreconditionsPass) =>
        /\ pc = "raised"
        /\ attempts = <<>>
        /\ processing_stats = stats0

C7_Witness ==
    /\ pc = "raised"
    /\ IsInvalidStyle(error)
    /\ ReqSet \cap FourStyles # {}
    /\ stats0.total_requests > 0
    /\ processing_stats = stats0


(***************************************************************************)
(* Vocabulary of the extractor's properties                                *)
(***************************************************************************)
JustCalled == doc_event = "extract_text"

HasPrevOk == prev_ok # <<>>

\* what reading the file of the last call now would give
FreshOutcome == route(doc_path, fs[doc_path])

(***************************************************************************)
(* C8: extract_text on the path of the immediately preceding successful    *)
(* extract_text call returns the text of that call without reading the     *)
(* file, even if the file has changed since; extract_text on a different   *)
(* path reads that file and returns its fresh content.                     *)
(***************************************************************************)
C8_CacheKeyedByPath ==
    (JustCalled /\ HasPrevOk) =>
        /\ prev_ok[1].path = doc_path =>
              /\ doc_ret = Return(prev_ok[1].text)
              /\ ~doc_opened
        /\ (prev_ok[1].path # doc_path /\ is_supported_format(doc_path)
              /\ exists(fs[doc_path])) =>
              /\ doc_opened
              /\ doc_ret = FreshOutcome

C8_Witness ==
    /\ JustCalled
    /\ HasPrevOk
    /\ prev_ok[1].path = doc_path
    /\ doc_ret = Return(prev_ok[1].text)
    /\ ~doc_opened
    /\ exists(fs[doc_path])
    /\ FreshOutcome.kind = "return"
    /\ FreshOutcome # doc_ret

(***************************************************************************)
(* C9 as stated: the cache slot is invalidated whenever extract_text is    *)
(* requested for a path different from the cached one, whether the         *)
(* request succeeds or fails: after such a request the slot no longer      *)
(* holds the text of the earlier path.                                     *)
(***************************************************************************)
C9_InvalidatedByAnyOtherRequest ==
    (JustCalled /\ HasPrevOk /\ prev_ok[1].path # doc_path) =>
        last_processed_file # <<prev_ok[1].path>>

(***************************************************************************)
(* C9 amended: the slot always holds the path and the text of the most     *)
(* recent successful extract_text call.  A request for a different path    *)
(* overwrites it when it succeeds and leaves it as it was when it fails.   *)
(***************************************************************************)
C9_OverwrittenOnlyBySuccess ==
    /\ last_ok = <<>> =>
          last_processed_file = <<>> /\ last_extracted_text = <<>>
    /\ last_ok # <<>> =>
          /\ last_processed_file = <<last_ok[1].path>>
          /\ last_extracted_text = <<last_ok[1].text>>
    /\ (JustCalled /\ HasPrevOk /\ prev_ok[1].path # doc_path) =>
          IF doc_ret.kind = "return"
          THEN /\ last_processed_file = <<doc_path>>
               /\ last_extracted_text = <<doc_ret.text>>
          ELSE /\ last_processed_file = <<prev_ok[1].path>>
               /\ last_extracted_text = <<prev_ok[1].text>>

C9_Witness ==
    /\ JustCalled
    /\ HasPrevOk
    /\ prev_ok[1].path # doc_path
    /\ is_supported_format(doc_path)
    /\ doc_ret.kind = "raise"
    /\ last_processed_file = <<prev_ok[1].path>>
    /\ last_extracted_text = <<prev_ok[1].text>>

(***************************************************************************)
(* C10: extract_text fails with FileNotFoundError whenever the path does   *)
(* not exist at the time of the call, whatever calls preceded it; stated   *)
(* here for the paths with a supported extension, a path extracted before  *)
(* and deleted since included.                                             *)
(***************************************************************************)
C10_NotFoundWhenMissing ==
    (JustCalled /\ is_supported_format(doc_path) /\ ~exists(fs[doc_path])) =>
        /\ doc_ret.kind = "raise"
        /\ doc_ret.type = "FileNotFoundError"



(***************************************************************************)
(*                 Claims about the functions of the extractor             *)
(***************************************************************************)
\* a function of the extractor has been applied to the drawn argument
Probed(fn) == probe.fn = fn /\ probe_out.applied

\* the encodings of the chain that decode the bytes without error
Decodable(bytes) ==
    {i \in 1..Len(encodings) : decode(encodings[i], bytes).ok}

\* those that decode the bytes to content that is not empty once stripped
Usable(bytes) ==
    {i \in Decodable(bytes) : strip(decode(encodings[i], bytes).text) # <<>>}

Least(S) == CHOOSE i \in S : \A j \in S : i <= j

StrippedBy(i, bytes) == strip(decode(encodings[i], bytes).text)

C12_Latin1WinsForInvalidUtf8 ==
    ( /\ Probed("extract_text")
      /\ ~decode_utf8(probe.arg).ok
      /\ strip(decode_latin1(probe.arg).text) # <<>> )
        => probe_out.value = Return(strip(decode_latin1(probe.arg).text))


\* a page whose text is extracted without error and is not blank
CleanPage(pg) == pg.ok /\ strip(pg.text) # <<>>

\* the texts of the clean pages, in page order
CleanTexts(pages) ==
    LET sel == SelectSeq(pages, CleanPage)
    IN [i \in 1..Len(sel) |-> sel[i].text]

(***************************************************************************)
(* C13 (as stated): extract_text_from_pdf skips a page whose extraction    *)
(* raises and goes on; the result is the newline-joined text of exactly    *)
(* the pages that extracted without error and are not whitespace-only, in  *)
(* page order, and the call fails only if there is no such page.           *)
(***************************************************************************)
C13_JoinedCleanPages ==
    Probed("extract_text_from_pdf") =>
        IF CleanTexts(probe.arg) = <<>>
        THEN probe_out.value.kind = "raise"
        ELSE probe_out.value = Return(join(NL, CleanTexts(probe.arg)))

(***************************************************************************)
(* C13 (amended): as stated, except that the result is the newline-joined  *)
(* text of those pages with the whitespace at its two ends stripped.       *)
(***************************************************************************)
C13_JoinedCleanPagesStripped ==
    Probed("extract_text_from_pdf") =>
        IF CleanTexts(probe.arg) = <<>>
        THEN probe_out.value.kind = "raise"
        ELSE probe_out.value = Return(strip(join(NL, CleanTexts(probe.arg))))

\* a page that raises, then a clean page whose text begins with a blank:
\* the call has returned
C13_Witness ==
    /\ Probed("extract_text_from_pdf")
    /\ \E i, j \in 1..Len(probe.arg) :
          /\ i < j
          /\ ~probe.arg[i].ok
          /\ CleanPage(probe.arg[j])
          /\ probe.arg[j].text[1] \in Whitespace
    /\ probe_out.value.kind = "return"


(***************************************************************************)
(*                     Claims about the statistics                         *)
(***************************************************************************)
(***************************************************************************)
(* C14: get_processing_stats reports the three counters and success_rate   *)
(* = successful_requests / total_requests when total_requests > 0, and 0.0 *)
(* otherwise; after reset_stats the three counters are 0 and the rate to   *)
(* report is 0.0, whatever calls came before.                              *)
(***************************************************************************)
C14_SuccessRateAndReset ==
    /\ ai_event = "get_processing_stats" =>
          /\ stats_view.total_requests = processing_stats.total_requests
          /\ stats_view.successful_requests = processing_stats.successful_requests
          /\ stats_view.failed_requests = processing_stats.failed_requests
          /\ stats_view.success_rate.den > 0
          /\ IF processing_stats.total_requests > 0
             THEN stats_view.success_rate.num * processing_stats.total_requests
                    = processing_stats.successful_requests * stats_view.success_rate.den
             ELSE stats_view.success_rate.num = 0
    /\ ai_event = "reset_stats" =>
          /\ processing_stats.total_requests = 0
          /\ processing_stats.successful_requests = 0
          /\ processing_stats.failed_requests = 0
          /\ stats_report(processing_stats).success_rate.num = 0

\* three successes and one failure: the rate reported is 3/4
C14_Witness ==
    /\ ai_event = "get_processing_stats"
    /\ stats_view.total_requests = 4
    /\ stats_view.successful_requests = 3
    /\ stats_view.failed_requests = 1
    /\ stats_view.success_rate = [num |-> 3, den |-> 4]


(***************************************************************************)
(*                     Claims about the supported formats                  *)
(***************************************************************************)
\* the pieces that spell pdf, docx, doc or txt in some case
SupportedSpellings == {"txt", "TXT", "Pdf", "docx", "doc"}

\* the file name has an extension, made of the piece e: its last dot is
\* neither its first nor its last character, and e is what follows the dot
ExtensionIs(n, e) ==
    /\ Len(n) >= 3
    /\ n[Len(n) - 1] = "."
    /\ n[Len(n)] = e
    /\ e # "."

(***************************************************************************)
(* C15: is_supported_format(path) is true if and only if the extension of  *)
(* the path's file name, compared case-insensitively, is one of .pdf,      *)
(* .docx, .doc, .txt; it is false for every other extension and for a path *)
(* with no extension.                                                      *)
(***************************************************************************)
C15_SupportedIffExtension ==
    Probed("is_supported_format") =>
        (probe_out.value <=>
            \E e \in SupportedSpellings : ExtensionIs(path_name(probe.arg), e))

\* a name of three pieces with the extension in upper case: supported
C15_Witness ==
    /\ Probed("is_supported_format")
    /\ Len(probe.arg) = 3
    /\ probe.arg[3] = "TXT"
    /\ probe_out.value = TRUE


(***************************************************************************)
(*                        Claims about get_file_info                       *)
(***************************************************************************)
(***************************************************************************)
(* C16: get_file_info never fails and leaves the extraction cache alone:   *)
(* it returns a descriptor, with size 0 and exists = false when the file   *)
(* is missing, also when the file is removed while the call is running.    *)
(***************************************************************************)
C16_GetFileInfoNeverFails ==
    /\ info_pc # "raised"
    /\ last_processed_file = <<>>
    /\ last_extracted_text = <<>>
    /\ (info_pc = "returned" /\ ~info_ret["exists"])
          => (info_ret["size_bytes"] = 0 /\ info_ret["size_mb"] = 0)


(***************************************************************************)
(*                 Claims about the generation invocations                 *)
(***************************************************************************)
\* the place of a style in the catalog: didactic, client, developers,
\* management
CatalogPlace(s) ==
    CASE s = "didactic" -> 1
      [] s = "client" -> 2
      [] s = "developers" -> 3
      [] s = "management" -> 4

InCatalogOrder(l) ==
    \A i, j \in 1..Len(l) : i < j => CatalogPlace(l[i]) <= CatalogPlace(l[j])

AttemptedStyles == [i \in 1..Len(attempts) |-> attempts[i].style]

IsPrefix(a, b) == Len(a) <= Len(b) /\ \A i \in 1..Len(a) : a[i] = b[i]

(***************************************************************************)
(* C17 (as stated): within one process_text call the invocations are       *)
(* issued in catalog order whatever the order of the requested list, and   *)
(* styles_processed lists the attempted styles in catalog order.           *)
(***************************************************************************)
C17_InvocationsInCatalogOrder ==
    (InCall /\ PreconditionsPass) =>
        /\ InCatalogOrder(AttemptedStyles)
        /\ InCatalogOrder(processing_metadata.styles_processed)

(***************************************************************************)
(* C17 (amended): the invocations are issued in the order of the requested *)
(* list (the catalog order when no list is given), and styles_processed    *)
(* lists the attempted styles in that order.                               *)
(***************************************************************************)
C17_InvocationsInListOrder ==
    (InCall /\ PreconditionsPass) =>
        /\ IsPrefix(AttemptedStyles, ReqList)
        /\ IsPrefix(processing_metadata.styles_processed, ReqList)
        /\ pc = "returned" => processing_metadata.styles_processed = ReqList

\* the request [management, client] has returned: management came first
C17_Witness ==
    /\ pc = "returned"
    /\ styles_arg.given
    /\ styles_arg.list = <<"management", "client">>
    /\ AttemptedStyles = <<"management", "client">>
    /\ result.metadata.styles_processed = <<"management", "client">>

(***************************************************************************)
(* C18: a call that passes its preconditions invokes the capability        *)
(* exactly once per requested style: the number of invocations, and the    *)
(* increase of total_requests, is the number of distinct styles requested, *)
(* also when the list names a style more than once.                        *)
(***************************************************************************)
C18_OncePerDistinctStyle ==
    pc = "returned" =>
        /\ \A s \in ReqSet :
              Cardinality({i \in 1..Len(attempts) : attempts[i].style = s}) = 1
        /\ Len(attempts) = Cardinality(ReqSet)
        /\ processing_stats.total_requests =
              stats0.total_requests + Cardinality(ReqSet)

(***************************************************************************)
(* C19: for each requested style whose invocation returns text that is not *)
(* blank, the slot of the style holds exactly that text trimmed, and for   *)
(* each requested style whose invocation faults or returns blank text the  *)
(* slot is error-tagged, whatever the other invocations do.                *)
(***************************************************************************)
C19_SlotFollowsOwnInvocation ==
    pc = "returned" =>
        \A i \in 1..Len(attempts) :
            IF FailedOutcome(attempts[i].outcome)
            THEN IsErrorTagged(Slot(result, attempts[i].style))
            ELSE Slot(result, attempts[i].style)
                   = strip_tokens(attempts[i].outcome.content)


(***************************************************************************)
(*                     Claims about concurrent extraction                  *)
(***************************************************************************)
\* the text of the file at a path, the files being as they are
TextOf(p) == route(p, fs[p]).text

(***************************************************************************)
(* C20: when extract_text calls for different paths run concurrently on    *)
(* one DocumentProcessor, under every interleaving of their steps, no call *)
(* (of the two, or later) returns for its path the text extracted from     *)
(* another path: what a call returns is the text of the file at its path.  *)
(***************************************************************************)
C20_NoTextOfAnotherPath ==
    \A t \in Threads :
        (calls[t].pc = "done" /\ calls[t].ret.kind = "return")
            => calls[t].ret.text = TextOf(calls[t].file_path)


(***************************************************************************)
(*                   Claims about the shared counters                      *)
(***************************************************************************)
BothDone == \A t \in Threads : workers[t].pc = "done"

Sum(f) == f[1] + f[2]

(***************************************************************************)
(* C21: when two process_text calls run concurrently on one AIProcessor,   *)
(* under every interleaving no increment of a counter is lost: after both  *)
(* have finished each counter has grown by the sum of the two calls' own   *)
(* attempts, successes and failures.                                       *)
(***************************************************************************)
C21_NoLostIncrement ==
    BothDone =>
        /\ processing_stats.total_requests
              = Sum([t \in Threads |-> workers[t].total])
        /\ processing_stats.successful_requests
              = Sum([t \in Threads |-> workers[t].successful])
        /\ processing_stats.failed_requests
              = Sum([t \in Threads |-> workers[t].failed])


(***************************************************************************)
(*                  Claims about the failures of extraction                *)
(***************************************************************************)
IsDecodingFailure(r) ==
    r.kind = "raise" /\ r.msg = "Impossibile decodificare il file TXT"

IsEmptyTxt(r) ==
    r.kind = "raise" /\ r.msg = "Errore nella lettura del file TXT: File TXT vuoto"

HasInk(t) == \E i \in 1..Len(t) : t[i] \notin Whitespace

(***************************************************************************)
(* C23: every string returned by extract_text, fresh from a PDF, DOCX/DOC  *)
(* or TXT file or served from the cache, has a character that is not       *)
(* whitespace, and the cache never holds an empty or blank string.         *)
(***************************************************************************)
C23_NeverBlankText ==
    /\ (JustCalled /\ doc_ret.kind = "return") => HasInk(doc_ret.text)
    /\ last_extracted_text # <<>> => HasInk(last_extracted_text[1])
    /\ last_extracted_text # <<>> <=> last_processed_file # <<>>

\* a text served from the cache while the file has turned blank: a fresh
\* extraction would fail
C23_Witness ==
    /\ JustCalled
    /\ doc_ret.kind = "return"
    /\ ~doc_opened
    /\ HasInk(doc_ret.text)
    /\ exists(fs[doc_path])
    /\ FreshOutcome.kind = "raise"


(***************************************************************************)
(*                    Claims about the result of a call                    *)
(***************************************************************************)
(***************************************************************************)
(* C24: styles_processed of a returned ProcessingResult is the ordered     *)
(* list of exactly the styles for which a generation attempt was made in   *)
(* the call, the failed ones included: a style whose attempt failed is in  *)
(* the list and its slot is error-tagged; no style in the list was not     *)
(* requested.                                                              *)
(***************************************************************************)
C24_StylesProcessedAreTheAttempts ==
    pc = "returned" =>
        /\ result.metadata.styles_processed = AttemptedStyles
        /\ \A i \in FailedAttempts :
              /\ attempts[i].style \in SeqToSet(result.metadata.styles_processed)
              /\ IsErrorTagged(Slot(result, attempts[i].style))
        /\ SeqToSet(result.metadata.styles_processed) \subseteq ReqSet


(***************************************************************************)
(* C25: extract_text on a path whose extension is not supported fails with *)
(* UnsupportedFormat (a ValueError) whether or not the file exists and     *)
(* whatever the cache holds, does not read the file, and leaves            *)
(* last_processed_file and last_extracted_text as they were.               *)
(***************************************************************************)
C25_UnsupportedFormatFirst ==
    [][(doc_event' = "extract_text" /\ ~is_supported_format(doc_path')) =>
          /\ doc_ret'.kind = "raise"
          /\ doc_ret'.type = "ValueError"
          /\ doc_ret'.msg = "Formato file non supportato"
          /\ ~doc_opened'
          /\ UNCHANGED <<last_processed_file, last_extracted_text>>]_vars

\* the file of the unsupported path is missing and the cache holds a text:
\* the call has failed with the ValueError
C25_Witness ==
    /\ JustCalled
    /\ ~is_supported_format(doc_path)
    /\ ~exists(fs[doc_path])
    /\ last_extracted_text # <<>>
    /\ doc_ret.type = "ValueError"

(***************************************************************************)
(* C26: AIAgent.process_text surfaces an invalid text to its caller as a   *)
(* ValueError: for every text that is empty, whitespace-only or shorter    *)
(* than 50 characters after trimming, the error that reaches the caller    *)
(* is of kind ValueError, not a generic Exception.                         *)
(***************************************************************************)
AgentCallEnded(op) ==
    /\ agent_pc \in {"returned", "raised"}
    /\ agent_call.op = op

C26_InvalidTextSurfacesAsValueError ==
    (AgentCallEnded("process_text") /\ text_error(agent_call.text) # NoError) =>
        /\ agent_pc = "raised"
        /\ agent_ret.type = "ValueError"

(***************************************************************************)
(* C27: on one AIProcessor whose process_text and reset_stats calls run    *)
(* one after another, total_requests = successful_requests +               *)
(* failed_requests whenever no generation invocation is in flight, and     *)
(* total_requests = successful_requests + failed_requests + 1 while one    *)
(* is in flight.                                                           *)
(***************************************************************************)
C27_TotalIsSuccessesPlusFailures ==
    LET settled == processing_stats.successful_requests
                     + processing_stats.failed_requests
    IN IF pc = "inflight"
       THEN processing_stats.total_requests = settled + 1
       ELSE processing_stats.total_requests = settled

\* an invocation in flight after a success and a failure were counted
C27_Witness ==
    /\ pc = "inflight"
    /\ processing_stats.successful_requests >= 1
    /\ processing_stats.failed_requests >= 1

(***************************************************************************)
(* C28: process_text with a valid text and an explicitly empty list of     *)
(* styles makes no generation invocation, leaves the three counters as     *)
(* they were, and returns a ProcessingResult whose four slots hold the     *)
(* "not requested" sentinel, with styles_processed = [] and                *)
(* processing_errors = []; only an omitted list stands for the four        *)
(* styles.                                                                 *)
(***************************************************************************)
EmptyListCall ==
    /\ pc # "idle"
    /\ text_error(text) = NoError
    /\ styles_arg.given
    /\ styles_arg.list = <<>>

C28_EmptyListGeneratesNothing ==
    /\ EmptyListCall =>
          /\ pc \in {"loop", "returned"}
          /\ attempts = <<>>
          /\ processing_stats = stats0
          /\ pc = "returned" =>
                /\ \A s \in FourStyles : IsSentinel(Slot(result, s))
                /\ result.metadata.styles_processed = <<>>
                /\ result.metadata.processing_errors = <<>>
    /\ pc \in {"loop", "inflight", "returned"} =>
          (styles = CanonicalStyles <=> ~styles_arg.given)

\* the empty list returned on a processor that has counted requests
C28_Witness ==
    /\ EmptyListCall
    /\ pc = "returned"
    /\ stats0.total_requests >= 1

(***************************************************************************)
(* C29: in every ProcessingResult the slot of a requested style starts     *)
(* with the error tag "[ERRORE]" if and only if the attempt of that style  *)
(* was counted as a failure; a style whose attempt was counted as a        *)
(* success, whatever non-empty text the capability returned, never has a   *)
(* slot that print_result_summary shows as an error.  Stated for requests  *)
(* that name no style twice, where each style has one attempt.             *)
(***************************************************************************)
CountedAsFailure(i) ==
    ~generate_summary_outcome(attempts[i].style, attempts[i].outcome).ok

C29_ErrorTagIffCountedFailure ==
    (pc = "returned" /\ Len(ReqList) = Cardinality(ReqSet)) =>
        \A i \in 1..Len(attempts) :
            LET slot == Slot(result, attempts[i].style) IN
            /\ IsErrorTagged(slot) <=> CountedAsFailure(i)
            /\ ~CountedAsFailure(i) => ~shown_as_error(slot)

(***************************************************************************)
(* C30: AIAgent.process_file rejects with a "file too large" error, before *)
(* any extraction and before any generation invocation, every existing     *)
(* supported file whose size in bytes is greater than                      *)
(* max_file_size_mb * 1024 * 1024, and accepts every file whose size is at *)
(* most that bound.                                                        *)
(***************************************************************************)
FileCallOnSupportedFile ==
    /\ agent_call.op = "process_file"
    /\ exists(fs[agent_call.path])
    /\ is_supported_format(agent_call.path)

RejectedAsTooLarge ==
    /\ agent_pc = "raised"
    /\ agent_ret.type = "ValueError"
    /\ agent_ret.msg = "File troppo grande"

C30_TooLargeIffOverTheBound ==
    FileCallOnSupportedFile =>
        IF agent_call.size_bytes > agent_call.limit * 1024 * 1024
        THEN /\ RejectedAsTooLarge
             /\ ~agent_call.extracted
             /\ pc = "idle"
             /\ processing_stats = agent_call.stats0
        ELSE ~RejectedAsTooLarge

=============================================================================
